---- MODULE Spec2Model ----
(***************************************************************************)
(* Model of the sampling / batching pipeline of SceneSegDataset            *)
(* (Standalone/KPConvX/data_handlers/scene_seg.py).                        *)
(*                                                                         *)
(* Process 0 is the main process: it owns the dataset object, runs the     *)
(* calibration loops (which draw centers with sample_input_center) and     *)
(* resets the regular-sampling cursor when calibration ends.  The          *)
(* DataLoader workers 1..NumWorkers are then started; each holds its own   *)
(* copy of the dataset attributes.  reg_sampling_i, reg_votes and          *)
(* worker_lock live in shared memory (share_memory_ / multiprocessing      *)
(* Lock); the attribute reg_sample_pts is a per-process reference, so it   *)
(* is a function of the process.                                           *)
(*                                                                         *)
(* Configurations explored: any number of workers with the default batch   *)
(* limit -1 (every batch closes on its first region), and one worker with  *)
(* every batch limit from 0 to MaxBLim in half units.                      *)
(*                                                                         *)
(* A queue is [gen, N]: N is reg_sample_pts.shape[0]; gen names the        *)
(* tensor object (the value of reg_votes once it has been created).  The   *)
(* elements of a queue are named by their position in the shuffled order,  *)
(* element i of queue g being the pair <<g, i>>.                           *)
(*                                                                         *)
(* b_lim is kept in half units (b_lim = 3 stands for 1.5 points), since    *)
(* calibration produces non-integer limits that __getitem__ truncates.     *)
(***************************************************************************)
EXTENDS Integers, Sequences, FiniteSets, TLC

\* ------------------------------------------------------------------ bounds
NumWorkers == 2
MaxQ == 3
MaxVotes == 1
MaxPts == 1
MaxBLim == 1
MaxCalibDraws == 3
MaxEndCalls == 1
MaxK == 3
MaxRadius == 4
MaxScene == 7
MaxB == 4
MaxLen == 2
MaxMix == 2
MaxTrainB == 12
MaxEpochs == 3
MaxTarget == 2

\* --------------------------------------------------------------- constants
Main == 0
Workers == 1..NumWorkers
Procs == 0..NumWorkers
NoHolder == 0 - 1
BLimDen == 2

Roles == {"training", "validation", "test"}
RandomSamplers == {"random", "c-random", "A-random"}
DefinedSamplers == {"regular"} \cup RandomSamplers
\* names that are none of the defined policies
UnknownSamplers == {"c-regular", "x-random"}
Samplers == DefinedSamplers \cup UnknownSamplers

\* `'random' in self.data_sampler`, on the names above
HasRandom(s) == s \in {"random", "c-random", "A-random", "x-random"}

\* Scene store: per scene, the label of each point.  Class 2 has no point.
input_labels == << <<0, 1>>, <<0>> >>
num_classes == 3
ignored_labels == {0}
Clouds == 1..Len(input_labels)

NoCenter == [kind |-> "none", cloud |-> 0, gen |-> 0, pt |-> 0]
END == [kind |-> "END", cloud |-> 0, gen |-> 0, pt |-> 0]
IndexError == [kind |-> "IndexError", cloud |-> 0, gen |-> 0, pt |-> 0]

VARIABLES
    set,             \* self.set: role of the dataset
    data_sampler,    \* self.data_sampler
    in_radius,       \* self.in_radius (< 0: fixed-count mode with k = -in_radius)
    b_lim,           \* self.b_lim, in units of 1/BLimDen
    num_workers,     \* cfg.train.num_workers / cfg.test.num_workers
    reg_sampling_i,  \* shared cursor
    reg_votes,       \* shared vote counter
    worker_lock,     \* holder of the shared lock, or NoHolder
    reg_sample_pts,  \* per process: the queue this process references
    pc,              \* per process: position in its code
    center,          \* per process: (cloud_ind, center_point) returned by the last call
    calib_n,         \* number of centers drawn by the running calibration loop
    batch_n_pts,     \* per worker: running point total of __getitem__
    p_list,          \* per worker: sizes of the collected regions
    in_n,            \* per worker: in_points.shape[0] of the region just extracted
    ret,             \* per worker: what the last __getitem__ returned
    calls,           \* history: slots handed out since the cursor was last set to 0
    use_cubes,       \* self.use_cubes
    cylindric_input, \* self.cylindric_input
    tree_n,          \* points.shape[0] of the scene get_input_area works on
    q_center,        \* center_point handed to get_input_area
    areas,           \* what the calls of get_input_area made so far returned
    mix3D,           \* cfg.augment_train.mix3D, in units of 1/MixDen
    lengths_in,      \* per collected region: << p_list[i].shape[0], pi_list[i].shape[0] >>
    stacked,         \* sizes of the concatenated arrays (points, input_inds, centers)
    stack_lengths,   \* stack_lengths of the batch being returned
    stack_lengths0,  \* stack_lengths0 of the batch being returned
    mix_pc,          \* position in the end of __getitem__ (lines 789-855)
    train_pc,        \* position of the training loop in training_epoch
    err,             \* the RuntimeError training_epoch has caught
    skipped_i,       \* skipped_i of training_epoch
    finished,        \* finished of training_epoch
    epoch,           \* number of calls of training_epoch so far
    track,           \* whether the run is followed in detail (poll values, draw counts)
    v_ret,           \* what the last get_votes() of the main process returned
    draw_n,          \* per worker: centers drawn so far by the running __getitem__
    draw_i0,         \* per worker: the cursor when the running __getitem__ began
    calib_fn,        \* the calibration routine that runs
    calib_pc,        \* position in that routine
    samples,         \* its `samples` argument
    b_n,             \* self.b_n: the target batch size, in units of 1/BLimDen
    all_cloud_n,     \* all_cloud_n of calib_batch_limit: the region sizes collected
                     \* (calib_neighbors: the regions behind all_neighbor_counts[0])
    new_b_lim,       \* new_b_lim of calib_batch_limit, in units of 1/BLimDen, or nan
    sim              \* the batches of a calibration loop: i, batch_n, batch_n_pts of
                     \* the running one, sums of all_batch_n and all_batch_n_pts

vars == << set, data_sampler, in_radius, b_lim, num_workers, reg_sampling_i, reg_votes, worker_lock,
           reg_sample_pts, pc, center, calib_n, batch_n_pts, p_list, in_n, ret, calls,
           use_cubes, cylindric_input, tree_n, q_center, areas,
           mix3D, lengths_in, stacked, stack_lengths, stack_lengths0, mix_pc,
           train_pc, err, skipped_i, finished, epoch,
           track, v_ret, draw_n, draw_i0,
           calib_fn, calib_pc, samples, b_n, all_cloud_n, new_b_lim, sim >>

cfgVars == << set, data_sampler, in_radius, b_lim, num_workers >>
batchVars == << batch_n_pts, p_list, in_n, ret >>
sharedVars == << reg_sampling_i, reg_votes, worker_lock, reg_sample_pts >>
areaVars == << use_cubes, cylindric_input, tree_n, q_center, areas >>
mixVars == << mix3D, lengths_in, stacked, stack_lengths, stack_lengths0, mix_pc >>
trainVars == << train_pc, err, skipped_i, finished, epoch >>
pollVars == << track, v_ret >>
drawVars == << draw_n, draw_i0 >>
calibVars == << calib_fn, calib_pc, samples, b_n, all_cloud_n, new_b_lim, sim >>
auxVars == << areaVars, mixVars, trainVars, pollVars, calibVars >>

\* ------------------------------------------------------------------ helpers

\* runs followed in detail have a single worker and go one queue element and one
\* regeneration further
QueueCap == IF track THEN MaxQ + 1 ELSE MaxQ
VoteCap == IF track THEN MaxVotes + 1 ELSE MaxVotes

\* the draws of one __getitem__ that are followed: more than a whole queue and its END
DrawCap == QueueCap + 2

\* new_reg_sampling_pts: the queues it can produce, given the name of the new tensor.
\* Every scene holds at least one point, so its grid subsampling keeps at least one.
NewQueues(g) == { [gen |-> g, N |-> n] : n \in Len(input_labels)..QueueCap }

\* a radius test that lets every radius through
NegativeRadiusNever(r) == FALSE

\* line 433: `if self.in_radius < 0: raise ValueError`
NegativeRadius(r) == r < 0

\* the draws of a worker's __getitem__ are counted in the runs followed in detail
Drawn(p) == IF track /\ p \in Workers THEN [draw_n EXCEPT ![p] = @ + 1] ELSE draw_n

\* reg_sample_clouds[i]: the scene of slot i (0-based); every scene owns a slot
SlotCloud(i) == (i % Len(input_labels)) + 1

\* reg_sample_clouds[i], reg_sample_pts[i] with a 0-based index i
QueueAt(q, i) ==
    IF 0 <= i /\ i < q.N
    THEN [kind |-> "center", cloud |-> SlotCloud(i), gen |-> q.gen, pt |-> i + 1]
    ELSE IndexError

\* a lock that never makes anybody wait
LockFreeNoWait(l) == TRUE

\* `with self.worker_lock`: the lock can be taken when nobody holds it
LockFree(l) == l = NoHolder

\* the end test written with > in place of >=
ExhaustedOffByOne(i, N) == i > N

\* `if self.reg_sampling_i >= reg_sampling_N`
Exhausted(i, N) == i >= N

\* `if self.set == 'validation'`
RegenRole(s) == s = "validation"

\* a cursor advanced twice per call
NextCursorSkip(i) == i + 2

\* `self.reg_sampling_i += 1`
NextCursor(i) == i + 1

\* a vote counted twice per regeneration
NextVotesDouble(v) == v + 2

\* `self.reg_votes += 1`
NextVotes(v) == v + 1

\* a truncation that lands one below
IntTruncBelow(b) == (b \div BLimDen) - 1

\* int(self.b_lim): truncation toward zero of b / BLimDen
IntTrunc(b) == IF b >= 0 THEN b \div BLimDen ELSE 0 - ((0 - b) \div BLimDen)

\* the budget test written with >= in place of >
BatchFullAtLimit(n, b) == n >= IntTrunc(b)

\* `if batch_n_pts > int(self.b_lim)`
BatchFull(n, b) == n > IntTrunc(b)

\* an emptiness test that no region meets
EmptyRegionNever(n) == n < 0

\* `if in_points.shape[0] < 1: continue`
EmptyRegion(n) == n < 1

\* the empty-batch test with the wrong threshold
EmptyBatchOffByOne(l) == Len(l) < 2

\* `if len(p_list) < 1`
EmptyBatch(l) == Len(l) < 1

\* a running total that counts the points the region holds
AddedPtsActual(n, r) == n

\* lines 759-764: what a region of n points adds to the running total
AddedPts(n, r) == IF r < 0 THEN n + ((0 - r) - n) ELSE n

\* where a process continues after sample_input_center returns
AfterSample(p) == IF p = Main THEN "calib" ELSE "got"

\* sizes get_input_area can return for a center (0: nothing in the region)
RegionSizes(r) == IF r < 0 THEN 1..(0 - r) ELSE 0..MaxPts

\* sizes augmentation and subsampling can leave of a region of s points
KeptSizes(s) == IF s < 1 THEN {0} ELSE 1..s

\* the history keeps, for the calls of one sweep and the first calls after its end,
\* the slot of the queue each call handed out (or END)
NoteCall(h, c) ==
    IF Len(h) < MaxQ + MaxEndCalls THEN Append(h, [c EXCEPT !.gen = 0]) ELSE h

\* the extraction geometry is not followed while the sampling and batching run
AreaIdle ==
    /\ use_cubes = FALSE
    /\ cylindric_input = FALSE
    /\ tree_n = 0
    /\ q_center = << 0, 0, 0 >>
    /\ areas = << >>

\* the end of __getitem__ is not followed in detail
MixIdle ==
    /\ mix3D = 0
    /\ lengths_in = << >>
    /\ stacked = [points |-> 0, inds |-> 0, centers |-> 0]
    /\ stack_lengths = << >>
    /\ stack_lengths0 = << >>
    /\ mix_pc = "idle"

\* no training loop runs
TrainIdle ==
    /\ train_pc = "idle"
    /\ err = "none"
    /\ skipped_i = 0
    /\ finished = TRUE
    /\ epoch = 0

\* get_votes() has not been called
NoVotes == [kind |-> "none", v |-> 0, i |-> 0, N |-> 1]

\* the run is not followed in detail
PollIdle ==
    /\ track = FALSE
    /\ v_ret = NoVotes

DrawIdle ==
    /\ draw_n = [w \in Workers |-> 0]
    /\ draw_i0 = [w \in Workers |-> 0]

NoSim == [i |-> 0, n |-> 0, pts |-> 0, sum_n |-> 0, sum_pts |-> 0]

\* new_b_lim before calib_batch_limit has computed it
NoLimit == [kind |-> "none", v |-> 0]

\* the calibration routines are not followed in detail
CalibIdle ==
    /\ calib_fn = "off"
    /\ calib_pc = "off"
    /\ samples = 0
    /\ b_n = 0
    /\ all_cloud_n = << >>
    /\ new_b_lim = NoLimit
    /\ sim = NoSim

\* --------------------------------------------------------------------- Init
Init ==
    /\ PollIdle
    /\ set \in Roles
    /\ data_sampler \in Samplers
    /\ in_radius \in {0 - (MaxPts + 1), 0 - 1, 1}
    /\ data_sampler = "regular" => in_radius > 0
    /\ \/ num_workers \in 1..NumWorkers /\ b_lim = 0 - BLimDen
       \/ num_workers = 1 /\ b_lim \in 0..(BLimDen * MaxBLim)
    /\ reg_sampling_i = 0
    /\ reg_votes = 0
    /\ worker_lock = NoHolder
    /\ \E q \in NewQueues(0) : reg_sample_pts = [p \in Procs |-> q]
    /\ pc = [p \in Procs |-> IF p = Main THEN "calib" ELSE "unborn"]
    /\ center = [p \in Procs |-> NoCenter]
    /\ calib_n = 0
    /\ batch_n_pts = [w \in Workers |-> 0]
    /\ p_list = [w \in Workers |-> << >>]
    /\ in_n = [w \in Workers |-> 0]
    /\ ret = [w \in Workers |-> "none"]
    /\ calls = << >>
    /\ AreaIdle
    /\ MixIdle
    /\ TrainIdle
    /\ DrawIdle
    /\ CalibIdle

\* ------------------------------------------------------- sample_input_center

\* A process is about to call sample_input_center.
Calling(p) ==
    IF p = Main
    THEN /\ pc[p] = "calib"
         /\ calib_n < MaxCalibDraws
         /\ calib_pc = "off" \/ (calib_pc = "collect" /\ center[p] = NoCenter)
    ELSE pc[p] = "draw" /\ draw_n[p] < DrawCap

\* line 505: with self.worker_lock
Acquire(p) ==
    /\ data_sampler = "regular"
    /\ Calling(p)
    /\ LockFree(worker_lock)
    /\ worker_lock' = p
    /\ pc' = [pc EXCEPT ![p] = "locked"]
    /\ UNCHANGED << auxVars, drawVars, cfgVars, reg_sampling_i, reg_votes, reg_sample_pts, center, calib_n,
                    batchVars, calls >>

\* lines 508-521, cursor inside the queue of this process: read the element under it
ReadNext(p) ==
    /\ pc[p] = "locked"
    /\ ~Exhausted(reg_sampling_i, reg_sample_pts[p].N)
    /\ center' = [center EXCEPT ![p] = QueueAt(reg_sample_pts[p], reg_sampling_i)]
    /\ pc' = [pc EXCEPT ![p] = "inc"]
    /\ UNCHANGED << auxVars, drawVars, cfgVars, sharedVars, calib_n, batchVars, calls >>

\* lines 508-521, end of the queue in validation: reset the cursor, make a new queue
\* for this process, count a vote, read the first element
ReadRegen(p) ==
    /\ pc[p] = "locked"
    /\ Exhausted(reg_sampling_i, reg_sample_pts[p].N)
    /\ RegenRole(set)
    /\ ~NegativeRadius(in_radius)
    /\ reg_votes < VoteCap
    /\ reg_sampling_i' = 0
    /\ reg_votes' = NextVotes(reg_votes)
    /\ \E q \in NewQueues(reg_votes + 1) :
          /\ reg_sample_pts' = [reg_sample_pts EXCEPT ![p] = q]
          /\ center' = [center EXCEPT ![p] = QueueAt(q, 0)]
    /\ pc' = [pc EXCEPT ![p] = "inc"]
    /\ calls' = << >>
    /\ UNCHANGED << auxVars, drawVars, cfgVars, worker_lock, calib_n, batchVars >>

\* the END return written with acquire() and no release() before the return
ReturnEndHolding(p) ==
    /\ pc[p] = "locked"
    /\ Exhausted(reg_sampling_i, reg_sample_pts[p].N)
    /\ ~RegenRole(set)
    /\ center' = [center EXCEPT ![p] = END]
    /\ pc' = [pc EXCEPT ![p] = AfterSample(p)]
    /\ calib_n' = IF p = Main THEN calib_n + 1 ELSE calib_n
    /\ calls' = NoteCall(calls, END)
    /\ draw_n' = Drawn(p)
    /\ UNCHANGED << auxVars, cfgVars, sharedVars, batchVars, draw_i0 >>

\* lines 508-517, end of the queue in any other role: return None, None
\* (leaving the with block releases the lock)
ReturnEnd(p) ==
    /\ pc[p] = "locked"
    /\ Exhausted(reg_sampling_i, reg_sample_pts[p].N)
    /\ ~RegenRole(set)
    /\ center' = [center EXCEPT ![p] = END]
    /\ worker_lock' = NoHolder
    /\ pc' = [pc EXCEPT ![p] = AfterSample(p)]
    /\ calib_n' = IF p = Main THEN calib_n + 1 ELSE calib_n
    /\ calls' = NoteCall(calls, END)
    /\ draw_n' = Drawn(p)
    /\ UNCHANGED << auxVars, cfgVars, reg_sampling_i, reg_votes, reg_sample_pts, batchVars,
                    draw_i0 >>

\* line 524 and the end of the with block: advance the cursor, release, return
Inc(p) ==
    /\ pc[p] = "inc"
    /\ reg_sampling_i' = NextCursor(reg_sampling_i)
    /\ worker_lock' = NoHolder
    /\ pc' = [pc EXCEPT ![p] = AfterSample(p)]
    /\ calib_n' = IF p = Main THEN calib_n + 1 ELSE calib_n
    /\ calls' = NoteCall(calls, center[p])
    /\ draw_n' = Drawn(p)
    /\ UNCHANGED << auxVars, cfgVars, reg_votes, reg_sample_pts, center, batchVars, draw_i0 >>

\* all_inds (prepare_label_inds): every (cloud, point) pair
AllInds == UNION { { << c, i >> : i \in 1..Len(input_labels[c]) } : c \in Clouds }

\* label_indices[l] (prepare_label_inds): the (cloud, point) pairs carrying label l
LabelIndices(l) ==
    { ci \in AllInds : input_labels[ci[1]][ci[2]] = l }

\* a label draw without the redraw loop
EligibleLabelsAll == 0..(num_classes - 1)

\* labels the class-balanced policy can settle on (the while loop redraws ignored ones)
EligibleLabels == (0..(num_classes - 1)) \ ignored_labels

\* a point index drawn within the size of the first scene, whatever the scene
RandomChoicesAnyScene(s) == Clouds \X (1..Len(input_labels[1]))

\* the (cloud_ind, point_ind) pairs a random policy can draw
RandomChoices(s) ==
    IF s = "c-random" THEN UNION { LabelIndices(l) : l \in EligibleLabels }
    ELSE AllInds

\* lines 526-555: the random policies; no shared state is touched
SampleRandom(p) ==
    /\ HasRandom(data_sampler)
    /\ Calling(p)
    /\ \E ci \in RandomChoices(data_sampler) :
          center' = [center EXCEPT ![p] =
                        [kind |-> "center", cloud |-> ci[1], gen |-> 0, pt |-> ci[2]]]
    /\ pc' = [pc EXCEPT ![p] = AfterSample(p)]
    /\ calib_n' = IF p = Main THEN calib_n + 1 ELSE calib_n
    /\ draw_n' = Drawn(p)
    /\ UNCHANGED << auxVars, cfgVars, sharedVars, batchVars, calls, draw_i0 >>

\* lines 530-533: the class drawn has no point in any scene:
\* np.random.choice(0) raises ValueError
RaiseEmptyClass(p) ==
    /\ data_sampler = "c-random"
    /\ Calling(p)
    /\ \E l \in EligibleLabels : LabelIndices(l) = {}
    /\ pc' = [pc EXCEPT ![p] = "ValueError"]
    /\ UNCHANGED << auxVars, drawVars, cfgVars, sharedVars, center, calib_n, batchVars, calls >>

\* lines 557-558: neither 'regular' nor a name with 'random' in it: raise ValueError
RaiseUnknown(p) ==
    /\ data_sampler # "regular"
    /\ ~HasRandom(data_sampler)
    /\ Calling(p)
    /\ pc' = [pc EXCEPT ![p] = "ValueError"]
    /\ UNCHANGED << auxVars, drawVars, cfgVars, sharedVars, center, calib_n, batchVars, calls >>

\* --------------------------------------------------------------- calibration

\* calib_batch line 1049 / calib_neighbors line 1166: `self.reg_sampling_i *= 0`,
\* written without the lock; the DataLoader workers are started afterwards and
\* receive the dataset attributes of the main process.
CalibReset ==
    /\ pc[Main] = "calib"
    /\ calib_pc \in {"off", "done"}
    /\ reg_sampling_i' = 0
    /\ reg_sample_pts' = [p \in Procs |-> reg_sample_pts[Main]]
    /\ pc' = [p \in Procs |-> IF p = Main THEN "calibrated"
                              ELSE IF p <= num_workers THEN "idle" ELSE "unborn"]
    /\ center' = [center EXCEPT ![Main] = NoCenter]
    /\ calib_n' = 0
    /\ calls' = << >>
    /\ UNCHANGED << auxVars, drawVars, cfgVars, reg_votes, worker_lock, batchVars >>

\* --------------------------------------------------------------- __getitem__

\* lines 663-676: a new call: empty lists, zero running total
GetItem(w) ==
    /\ pc[w] = "idle"
    /\ batch_n_pts' = [batch_n_pts EXCEPT ![w] = 0]
    /\ p_list' = [p_list EXCEPT ![w] = << >>]
    /\ ret' = [ret EXCEPT ![w] = "none"]
    /\ pc' = [pc EXCEPT ![w] = "draw"]
    /\ draw_n' = [draw_n EXCEPT ![w] = 0]
    /\ draw_i0' = IF track THEN [draw_i0 EXCEPT ![w] = reg_sampling_i] ELSE draw_i0
    /\ UNCHANGED << auxVars, cfgVars, sharedVars, center, calib_n, in_n, calls >>

\* lines 684-685: the sampler returned None: leave the loop
BreakEnd(w) ==
    /\ pc[w] = "got"
    /\ center[w] = END
    /\ pc' = [pc EXCEPT ![w] = "exit"]
    /\ UNCHANGED << auxVars, drawVars, cfgVars, sharedVars, center, calib_n, batchVars, calls >>

\* lines 688 and 755-756: get_input_area around the center, which is then kept
\* only as an entry of i_list / ci_list
GetArea(w) ==
    /\ pc[w] = "got"
    /\ center[w] # END
    /\ \E s \in RegionSizes(in_radius) : in_n' = [in_n EXCEPT ![w] = s]
    /\ center' = [center EXCEPT ![w] = NoCenter]
    /\ pc' = [pc EXCEPT ![w] = "area"]
    /\ UNCHANGED << auxVars, drawVars, cfgVars, sharedVars, calib_n, batch_n_pts, p_list, ret, calls >>

\* lines 690-691: the region holds no point: draw again
SkipEmpty(w) ==
    /\ pc[w] = "area"
    /\ EmptyRegion(in_n[w])
    /\ in_n' = [in_n EXCEPT ![w] = 0]
    /\ pc' = [pc EXCEPT ![w] = "draw"]
    /\ UNCHANGED << auxVars, drawVars, cfgVars, sharedVars, center, calib_n, batch_n_pts, p_list, ret, calls >>

\* lines 693-768: the region, n of its points kept by augmentation and subsampling,
\* is appended; the loop stops when the running total exceeds b_lim
Accept(w) ==
    /\ pc[w] = "area"
    /\ ~EmptyRegion(in_n[w])
    /\ \E n \in KeptSizes(in_n[w]) :
          /\ p_list' = [p_list EXCEPT ![w] = Append(@, n)]
          /\ batch_n_pts' = [batch_n_pts EXCEPT ![w] = @ + AddedPts(n, in_radius)]
          /\ pc' = [pc EXCEPT ![w] =
                       IF BatchFull(batch_n_pts[w] + AddedPts(n, in_radius), b_lim)
                       THEN "exit" ELSE "draw"]
    /\ in_n' = [in_n EXCEPT ![w] = 0]
    /\ UNCHANGED << auxVars, drawVars, cfgVars, sharedVars, center, calib_n, ret, calls >>

\* lines 777-782: nothing collected: sleep, return the empty input list
\* (the locals of the call end with it)
ReturnEmpty(w) ==
    /\ pc[w] = "exit"
    /\ EmptyBatch(p_list[w])
    /\ ret' = [ret EXCEPT ![w] = "empty"]
    /\ pc' = [pc EXCEPT ![w] = "idle"]
    /\ batch_n_pts' = [batch_n_pts EXCEPT ![w] = 0]
    /\ p_list' = [p_list EXCEPT ![w] = << >>]
    /\ center' = [center EXCEPT ![w] = NoCenter]
    /\ UNCHANGED << auxVars, drawVars, cfgVars, sharedVars, calib_n, in_n, calls >>

\* lines 789-855: concatenate, build the pyramid, return the batch
\* (the locals of the call end with it)
ReturnBatch(w) ==
    /\ pc[w] = "exit"
    /\ ~EmptyBatch(p_list[w])
    /\ ret' = [ret EXCEPT ![w] = "batch"]
    /\ pc' = [pc EXCEPT ![w] = "idle"]
    /\ batch_n_pts' = [batch_n_pts EXCEPT ![w] = 0]
    /\ p_list' = [p_list EXCEPT ![w] = << >>]
    /\ center' = [center EXCEPT ![w] = NoCenter]
    /\ UNCHANGED << auxVars, drawVars, cfgVars, sharedVars, calib_n, in_n, calls >>

\* ---------------------------------------------------------------------- Next
Next ==
    \/ \E p \in Procs : Acquire(p)
    \/ \E p \in Procs : ReadNext(p)
    \/ \E p \in Procs : ReadRegen(p)
    \/ \E p \in Procs : ReturnEnd(p)
    \/ \E p \in Procs : Inc(p)
    \/ \E p \in Procs : SampleRandom(p)
    \/ \E p \in Procs : RaiseEmptyClass(p)
    \/ \E p \in Procs : RaiseUnknown(p)
    \/ CalibReset
    \/ \E w \in Workers : GetItem(w)
    \/ \E w \in Workers : BreakEnd(w)
    \/ \E w \in Workers : GetArea(w)
    \/ \E w \in Workers : SkipEmpty(w)
    \/ \E w \in Workers : Accept(w)
    \/ \E w \in Workers : ReturnEmpty(w)
    \/ \E w \in Workers : ReturnBatch(w)

Spec == Init /\ [][Next]_vars

\* ============================================================ get_input_area
\* The extraction is followed on its own: a scene of tree_n points, a center, a
\* shape (use_cubes, cylindric_input) and in_radius are drawn, then get_input_area
\* is called (twice, to compare the calls).

\* cfg.data.dim
dim == 3

\* scenes are the first tree_n points of this list (continued further away on x)
BasePoints ==
    << << 0, 0, 0 >>, << 3, 3, 3 >>, << 4, 0, 0 >>, << 1, 0, 0 >>,
       << 5, 0, 0 >>, << 3, 3, 0 >>, << 0, 0, 6 >> >>

\* row i of the scene (1-based)
ScenePoint(i) ==
    LET b == BasePoints[((i - 1) % Len(BasePoints)) + 1]
        s == (i - 1) \div Len(BasePoints)
    IN  << b[1] + 9 * s, b[2], b[3] >>

Centers == { << 0, 0, 0 >>, << 1, 0, 0 >> }

Abs(x) == IF x < 0 THEN 0 - x ELSE x

RECURSIVE SumOver(_, _)
SumOver(f, S) ==
    IF S = {} THEN 0
    ELSE LET x == CHOOSE y \in S : TRUE IN f[x] + SumOver(f, S \ {x})

\* `q_point = q_point[:, :2]` in cylindrical mode: the axes the KDTree and the
\* query point live on
QueryAxes(cyl) == IF cyl THEN 1..2 ELSE 1..dim

\* squared Euclidean distance on the given axes (KDTree metric)
SqDist(a, b, axes) == SumOver([i \in axes |-> (a[i] - b[i]) * (a[i] - b[i])], axes)

\* np.max(np.abs(input_points - q_point), axis=1)
ChebDist(a, b, axes) ==
    CHOOSE m \in { Abs(a[i] - b[i]) : i \in axes } :
        \A i \in axes : Abs(a[i] - b[i]) <= m

\* a query radius that is not enlarged for cubes
QueryScaleNone(cubes, cyl) == 1

\* lines 609-614: the square of the factor applied to the query radius
QueryScale(cubes, cyl) == IF cubes THEN (IF cyl THEN dim - 1 ELSE dim) ELSE 1

\* query_radius(q_point, r): rows within distance r of q (r2 is r squared)
QueryRadius(n, q, r2, axes) == { i \in 1..n : SqDist(ScenePoint(i), q, axes) <= r2 }

\* a box mask that keeps the faces of the cube
InCubeClosed(pt, q, r, axes) ==
    \A i \in axes : pt[i] >= q[i] - r /\ pt[i] <= q[i] + r

\* lines 626-627: cube_mask
InCube(pt, q, r, axes) ==
    \A i \in axes : pt[i] > q[i] - r /\ pt[i] < q[i] + r

\* the k members of S with the smallest d (any way of breaking ties):
\* tree.query(q, k) and np.argpartition(d, k)[:k]
KSmallest(S, k, d) ==
    { T \in SUBSET S :
        /\ Cardinality(T) = k
        /\ \A a \in T : \A b \in S \ T : d[a] <= d[b] }

AreaInds(cand, inds) == [kind |-> "inds", cand |-> cand, inds |-> inds]
AreaError(cand) == [kind |-> "ValueError", cand |-> cand, inds |-> {}]

\* lines 577-603: in_radius < 0, the k = -in_radius nearest points
FixedCount(n, q, r, cubes, cyl) ==
    LET axes == QueryAxes(cyl)
        K == 0 - r
        k == IF cubes THEN 2 * K ELSE K
        eucl == [i \in 1..n |-> SqDist(ScenePoint(i), q, axes)]
        cheb == [i \in 1..n |-> ChebDist(ScenePoint(i), q, axes)]
        cands == IF n > k THEN KSmallest(1..n, k, eucl) ELSE { 1..n }
    IN  UNION { IF ~cubes THEN { AreaInds(c, c) }
                ELSE IF K >= Cardinality(c) THEN { AreaError(c) }
                ELSE { AreaInds(c, T) : T \in KSmallest(c, K, cheb) }
                : c \in cands }

\* lines 605-629: in_radius > 0, the points of the ball or of the cube
FixedRadius(n, q, r, cubes, cyl) ==
    LET axes == QueryAxes(cyl)
        c == QueryRadius(n, q, r * r * QueryScale(cubes, cyl), axes)
    IN  { AreaInds(c, IF cubes THEN { i \in c : InCube(ScenePoint(i), q, r, axes) }
                      ELSE c) }

\* get_input_area(cloud_ind, center_point, only_inds=True): what it can return
AreaResults(n, q, r, cubes, cyl) ==
    IF r < 0 THEN FixedCount(n, q, r, cubes, cyl) ELSE FixedRadius(n, q, r, cubes, cyl)

\* the state of the sampling and batching processes
runVars == << sharedVars, pc, center, calib_n, batchVars, calls, pollVars, drawVars, calibVars >>

\* no sampling or batching process runs
SamplingIdle ==
    /\ reg_sampling_i = 0
    /\ reg_votes = 0
    /\ worker_lock = NoHolder
    /\ reg_sample_pts = [p \in Procs |-> [gen |-> 0, N |-> Len(input_labels)]]
    /\ pc = [p \in Procs |-> "unborn"]
    /\ center = [p \in Procs |-> NoCenter]
    /\ calib_n = 0
    /\ batch_n_pts = [w \in Workers |-> 0]
    /\ p_list = [w \in Workers |-> << >>]
    /\ in_n = [w \in Workers |-> 0]
    /\ ret = [w \in Workers |-> "none"]
    /\ calls = << >>
    /\ PollIdle
    /\ DrawIdle
    /\ CalibIdle

InitArea ==
    /\ SamplingIdle
    /\ MixIdle
    /\ TrainIdle
    /\ set = "training"
    /\ data_sampler = "random"
    /\ b_lim = 0 - BLimDen
    /\ num_workers = 1
    /\ in_radius \in { 0 - k : k \in 2..MaxK } \cup (1..MaxRadius)
    /\ use_cubes \in BOOLEAN
    /\ cylindric_input \in BOOLEAN
    /\ tree_n \in 1..MaxScene
    /\ q_center \in Centers
    /\ areas = << >>

\* one call of get_input_area on the drawn scene and center
GetInputArea ==
    /\ Len(areas) < 2
    /\ \E res \in AreaResults(tree_n, q_center, in_radius, use_cubes, cylindric_input) :
          areas' = Append(areas, res)
    /\ UNCHANGED << cfgVars, runVars, mixVars, trainVars,
                    use_cubes, cylindric_input, tree_n, q_center >>

NextArea == GetInputArea

SpecArea == InitArea /\ [][NextArea]_vars

\* =================================================== __getitem__, lines 789-812
\* The end of __getitem__ is followed on its own: the sizes of the collected
\* regions, the role and mix3D are drawn, then the batch is concatenated and the
\* optional Mix3D step applied.

MixDen == 2

Max(a, b) == IF a > b THEN a ELSE b

\* np.ceil(a / d) for d > 0
Ceil(a, d) == 0 - ((0 - a) \div d)

RECURSIVE SumSeq(_)
SumSeq(sq) == IF sq = << >> THEN 0 ELSE Head(sq) + SumSeq(Tail(sq))

\* sq[:-u] in Python: -0 is 0, so u = 0 gives the empty prefix
SliceHead(sq, u) == IF u = 0 THEN << >> ELSE SubSeq(sq, 1, Max(0, Len(sq) - u))

\* sq[-u:] in Python: -0 is 0, so u = 0 gives the whole sequence
SliceTail(sq, u) == IF u = 0 THEN sq ELSE SubSeq(sq, Max(1, Len(sq) - u + 1), Len(sq))

\* a pairing that keeps the first length of each pair
PairFirsts(sq) == [i \in 1..(Len(sq) \div 2) |-> sq[2 * i - 1]]

\* torch.sum(torch.reshape(x, (-1, 2)), axis=1)
PairSums(sq) == [i \in 1..(Len(sq) \div 2) |-> sq[2 * i - 1] + sq[2 * i]]

\* lines 803-806: the number of trailing regions left unmerged (m is mix3D * MixDen)
Untouched(B, m) ==
    LET u == Max(0, Ceil(B * (MixDen - m), MixDen))
    IN  IF (B - u) % 2 = 1 THEN u + 1 ELSE u

\* lines 809-812: the merged length vector
MixLengths(sq, m) ==
    LET u == Untouched(Len(sq), m)
    IN  PairSums(SliceHead(sq, u)) \o SliceTail(sq, u)

\* the sizes of the regions a call can have collected
RegionLengths == { << n, n0 >> \in (1..MaxLen) \X (1..MaxLen) : n <= n0 }

RECURSIVE SeqsUpTo(_, _)
SeqsUpTo(S, n) ==
    IF n = 0 THEN { << >> }
    ELSE LET shorter == SeqsUpTo(S, n - 1)
         IN  shorter \cup { Append(sq, x) : sq \in { t \in shorter : Len(t) = n - 1 }, x \in S }

InitMix ==
    /\ SamplingIdle
    /\ AreaIdle
    /\ TrainIdle
    /\ set \in Roles
    /\ data_sampler = "random"
    /\ in_radius = 1
    /\ b_lim = 0 - BLimDen
    /\ num_workers = 1
    /\ mix3D \in 0..MaxMix
    /\ lengths_in \in { sq \in SeqsUpTo(RegionLengths, MaxB) : Len(sq) >= 1 }
    /\ stacked = [points |-> 0, inds |-> 0, centers |-> 0]
    /\ stack_lengths = << >>
    /\ stack_lengths0 = << >>
    /\ mix_pc = "collected"

\* lines 789-797: concatenate the lists, take the lengths of the regions
Concatenate ==
    /\ mix_pc = "collected"
    /\ stack_lengths' = [i \in 1..Len(lengths_in) |-> lengths_in[i][1]]
    /\ stack_lengths0' = [i \in 1..Len(lengths_in) |-> lengths_in[i][2]]
    /\ stacked' = [points |-> SumSeq([i \in 1..Len(lengths_in) |-> lengths_in[i][1]]),
                   inds |-> SumSeq([i \in 1..Len(lengths_in) |-> lengths_in[i][2]]),
                   centers |-> Len(lengths_in)]
    /\ mix_pc' = "stacked"
    /\ UNCHANGED << cfgVars, runVars, areaVars, trainVars, mix3D, lengths_in >>

\* lines 800-812: Mix3D rewrites the two length vectors
Mix3D ==
    /\ mix_pc = "stacked"
    /\ set = "training" /\ mix3D > 0
    /\ stack_lengths' = MixLengths(stack_lengths, mix3D)
    /\ stack_lengths0' = MixLengths(stack_lengths0, mix3D)
    /\ mix_pc' = "mixed"
    /\ UNCHANGED << cfgVars, runVars, areaVars, trainVars, mix3D, lengths_in, stacked >>

\* line 800, condition false: the lengths are kept
NoMix3D ==
    /\ mix_pc = "stacked"
    /\ ~(set = "training" /\ mix3D > 0)
    /\ mix_pc' = "unmixed"
    /\ UNCHANGED << cfgVars, runVars, areaVars, trainVars, mix3D, lengths_in, stacked,
                    stack_lengths, stack_lengths0 >>

NextMix == Concatenate \/ Mix3D \/ NoMix3D

SpecMix == InitMix /\ [][NextMix]_vars

\* ============================================ training_epoch (tasks/training.py)
\* The training loop is followed on its own, for the errors it catches: the batches
\* it processes without error change nothing that is modelled.

\* int(a / d) for d > 0: truncation toward zero
TruncDiv(a, d) == IF a >= 0 THEN a \div d ELSE 0 - ((0 - a) \div d)

\* a budget reduced by a tenth rounded up
ShrunkBLimUp(h) == h - BLimDen * Ceil(h, 10 * BLimDen)

\* line 237: b_lim -= int(b_lim * 0.1), on a budget h in units of 1/BLimDen
ShrunkBLim(h) == h - BLimDen * TruncDiv(h, 10 * BLimDen)

\* line 249: skipped_i > 1.1 * cfg.train.num_workers
SkipDone(k, nw) == 10 * k > 11 * nw

InitTrain ==
    /\ SamplingIdle
    /\ AreaIdle
    /\ MixIdle
    /\ set = "training"
    /\ data_sampler = "random"
    /\ in_radius = 1
    /\ b_lim \in 0..(BLimDen * MaxTrainB)
    /\ num_workers \in 0..NumWorkers
    /\ TrainIdle

\* lines 35-62: a call of training_epoch
StartEpoch ==
    /\ train_pc \in {"idle", "returned"}
    /\ epoch < MaxEpochs
    /\ epoch' = epoch + 1
    /\ finished' = TRUE
    /\ err' = "none"
    /\ skipped_i' = 0
    /\ train_pc' = "run"
    /\ UNCHANGED << cfgVars, runVars, areaVars, mixVars >>

\* lines 62 and 256: the loader is exhausted, return finished
EndEpoch ==
    /\ train_pc = "run"
    /\ train_pc' = "returned"
    /\ UNCHANGED << cfgVars, runVars, areaVars, mixVars, err, skipped_i, finished, epoch >>

\* line 233: the processing of a batch raised a RuntimeError
CatchRuntimeError ==
    /\ train_pc = "run"
    /\ err' \in {"CUDA out of memory", "other"}
    /\ train_pc' = "except"
    /\ UNCHANGED << cfgVars, runVars, areaVars, mixVars, skipped_i, finished, epoch >>

\* lines 234-245: out of memory: shrink the budget, give the epoch up
HandleOOM ==
    /\ train_pc = "except"
    /\ err = "CUDA out of memory"
    /\ b_lim' = ShrunkBLim(b_lim)
    /\ finished' = FALSE
    /\ skipped_i' = 0
    /\ train_pc' = "skipping"
    /\ UNCHANGED << set, data_sampler, in_radius, num_workers, runVars, areaVars, mixVars,
                    err, epoch >>

\* lines 253-254: any other RuntimeError is raised again
Reraise ==
    /\ train_pc = "except"
    /\ err # "CUDA out of memory"
    /\ train_pc' = "raised"
    /\ UNCHANGED << cfgVars, runVars, areaVars, mixVars, err, skipped_i, finished, epoch >>

\* lines 246-251: one more batch is taken from the loader and dropped
SkipBatch ==
    /\ train_pc = "skipping"
    /\ skipped_i' = skipped_i + 1
    /\ train_pc' = IF SkipDone(skipped_i + 1, num_workers) THEN "returned" ELSE "skipping"
    /\ UNCHANGED << cfgVars, runVars, areaVars, mixVars, err, finished, epoch >>

\* lines 246 and 251-256: the loader has no batch left to drop
SkipLoaderEnd ==
    /\ train_pc = "skipping"
    /\ train_pc' = "returned"
    /\ UNCHANGED << cfgVars, runVars, areaVars, mixVars, err, skipped_i, finished, epoch >>

NextTrain ==
    \/ StartEpoch
    \/ EndEpoch
    \/ CatchRuntimeError
    \/ HandleOOM
    \/ Reraise
    \/ SkipBatch
    \/ SkipLoaderEnd

SpecTrain == InitTrain /\ [][NextTrain]_vars

\* ======================================= construction, get_votes, draw counts
\* A run followed in detail: the dataset is constructed (the regular policy makes
\* its first queue then), calibrated, and one worker produces batches while the
\* main process polls get_votes().

\* line 146: self.reg_sample_pts = None
NoQueue == [gen |-> 0 - 1, N |-> 0]

InitVotes ==
    /\ track = TRUE
    /\ v_ret = NoVotes
    /\ set \in Roles
    /\ data_sampler \in {"regular", "random"}
    /\ in_radius \in {0 - (MaxPts + 1), 1}
    /\ b_lim = 0 - BLimDen
    /\ num_workers = 1
    /\ reg_sampling_i = 0
    /\ reg_votes = 0
    /\ worker_lock = NoHolder
    /\ reg_sample_pts = [p \in Procs |-> NoQueue]
    /\ pc = [p \in Procs |-> IF p = Main THEN "init" ELSE "unborn"]
    /\ center = [p \in Procs |-> NoCenter]
    /\ calib_n = 0
    /\ batch_n_pts = [w \in Workers |-> 0]
    /\ p_list = [w \in Workers |-> << >>]
    /\ in_n = [w \in Workers |-> 0]
    /\ ret = [w \in Workers |-> "none"]
    /\ calls = << >>
    /\ AreaIdle
    /\ MixIdle
    /\ TrainIdle
    /\ DrawIdle
    /\ CalibIdle

\* new_reg_sampling_pts, lines 436-490: the first queue of the regular policy
CreateQueue ==
    /\ pc[Main] = "init"
    /\ data_sampler = "regular"
    /\ ~NegativeRadius(in_radius)
    /\ \E q \in NewQueues(0) : reg_sample_pts' = [p \in Procs |-> q]
    /\ pc' = [pc EXCEPT ![Main] = "calib"]
    /\ UNCHANGED << auxVars, drawVars, cfgVars, reg_sampling_i, reg_votes, worker_lock, center,
                    calib_n, batchVars, calls >>

\* new_reg_sampling_pts, lines 433-434: a negative radius raises ValueError
RejectRadius ==
    /\ pc[Main] = "init"
    /\ data_sampler = "regular"
    /\ NegativeRadius(in_radius)
    /\ pc' = [pc EXCEPT ![Main] = "ValueError"]
    /\ UNCHANGED << auxVars, drawVars, cfgVars, sharedVars, center, calib_n, batchVars, calls >>

\* the other policies have no queue: reg_sample_pts stays None
SkipQueue ==
    /\ pc[Main] = "init"
    /\ data_sampler # "regular"
    /\ pc' = [pc EXCEPT ![Main] = "calib"]
    /\ UNCHANGED << auxVars, drawVars, cfgVars, sharedVars, center, calib_n, batchVars, calls >>

\* get_votes, line 495: with self.worker_lock
VotesAcquire ==
    /\ pc[Main] = "calibrated"
    /\ data_sampler = "regular"
    /\ LockFree(worker_lock)
    /\ worker_lock' = Main
    /\ pc' = [pc EXCEPT ![Main] = "votes"]
    /\ UNCHANGED << auxVars, drawVars, cfgVars, reg_sampling_i, reg_votes, reg_sample_pts, center,
                    calib_n, batchVars, calls >>

\* lines 496-498: v = reg_votes + reg_sampling_i / reg_sample_pts.shape[0]
VotesValue(v, i, N) == [kind |-> "value", v |-> v, i |-> i, N |-> N]

\* get_votes, lines 496-499: compute the value with the queue this process
\* references, leave the with block, return
VotesReturn ==
    /\ pc[Main] = "votes"
    /\ reg_sample_pts[Main].N > 0
    /\ v_ret' = VotesValue(reg_votes, reg_sampling_i, reg_sample_pts[Main].N)
    /\ worker_lock' = NoHolder
    /\ pc' = [pc EXCEPT ![Main] = "calibrated"]
    /\ UNCHANGED << areaVars, mixVars, trainVars, calibVars, track, drawVars, cfgVars,
                    reg_sampling_i, reg_votes, reg_sample_pts, center, calib_n, batchVars, calls >>

\* get_votes, lines 493-499, any other policy: return 0
VotesZero ==
    /\ pc[Main] = "calibrated"
    /\ data_sampler # "regular"
    /\ v_ret' = VotesValue(0, 0, 1)
    /\ UNCHANGED << areaVars, mixVars, trainVars, calibVars, track, drawVars, cfgVars,
                    sharedVars, pc, center, calib_n, batchVars, calls >>

NextPoll ==
    \/ CreateQueue
    \/ RejectRadius
    \/ SkipQueue
    \/ \E p \in Procs : Acquire(p)
    \/ \E p \in Procs : ReadNext(p)
    \/ \E p \in Procs : ReadRegen(p)
    \/ \E p \in Procs : ReturnEnd(p)
    \/ \E p \in Procs : Inc(p)
    \/ \E p \in Procs : SampleRandom(p)
    \/ CalibReset
    \/ \E w \in Workers : GetItem(w)
    \/ \E w \in Workers : BreakEnd(w)
    \/ \E w \in Workers : GetArea(w)
    \/ \E w \in Workers : SkipEmpty(w)
    \/ \E w \in Workers : Accept(w)
    \/ \E w \in Workers : ReturnEmpty(w)
    \/ \E w \in Workers : ReturnBatch(w)
    \/ VotesAcquire
    \/ VotesReturn
    \/ VotesZero

SpecVotes == InitVotes /\ [][NextPoll]_vars

\* ------------------------------------------------------------ fair scheduling
\* Every process is an operating-system process that keeps running: a step it can
\* take is taken (weak fairness). `with self.worker_lock` blocks until the lock is
\* free; a fair lock serves a process that finds it free again and again (strong
\* fairness). The main process is not bound to poll get_votes.

\* the steps of process p other than the entry into `with self.worker_lock`
ProcStep(p) ==
    \/ ReadNext(p) \/ ReadRegen(p) \/ ReturnEnd(p) \/ Inc(p) \/ SampleRandom(p)
    \/ (p = Main /\ (CreateQueue \/ RejectRadius \/ SkipQueue \/ CalibReset \/ VotesReturn))
    \/ (p \in Workers /\ (GetItem(p) \/ BreakEnd(p) \/ GetArea(p) \/ SkipEmpty(p)
                            \/ Accept(p) \/ ReturnEmpty(p) \/ ReturnBatch(p)))

FairScheduling ==
    \A p \in Procs : WF_vars(ProcStep(p)) /\ SF_vars(Acquire(p))

\* the state before the queue is made, any number of workers to come
InitLock ==
    /\ track = FALSE
    /\ v_ret = NoVotes
    /\ set \in Roles
    /\ data_sampler \in {"regular", "random"}
    /\ in_radius \in {0 - (MaxPts + 1), 1}
    /\ b_lim = 0 - BLimDen
    /\ num_workers \in 1..NumWorkers
    /\ reg_sampling_i = 0
    /\ reg_votes = 0
    /\ worker_lock = NoHolder
    /\ reg_sample_pts = [p \in Procs |-> NoQueue]
    /\ pc = [p \in Procs |-> IF p = Main THEN "init" ELSE "unborn"]
    /\ center = [p \in Procs |-> NoCenter]
    /\ calib_n = 0
    /\ batch_n_pts = [w \in Workers |-> 0]
    /\ p_list = [w \in Workers |-> << >>]
    /\ in_n = [w \in Workers |-> 0]
    /\ ret = [w \in Workers |-> "none"]
    /\ calls = << >>
    /\ AreaIdle
    /\ MixIdle
    /\ TrainIdle
    /\ DrawIdle
    /\ CalibIdle

SpecVotesFair == InitLock /\ [][NextPoll]_vars /\ FairScheduling

\* ================================================= the calibration routines
\* calib_batch (which runs calib_batch_size or calib_batch_limit) and
\* calib_neighbors are followed statement by statement in the main process, before
\* any worker exists; they draw their centers with sample_input_center.

\* np.nan: np.mean of an empty list, and whatever is computed from it
NaN == [kind |-> "nan", v |-> 0]

\* the budget without the - 1
NewBLimNoOffset(sizes, t) ==
    [kind |-> "num", v |-> (SumSeq(sizes) * t) \div Len(sizes)]

\* lines 981-982: mean_cloud_n = np.mean(all_cloud_n);
\* new_b_lim = mean_cloud_n * batch_size - 1   (t and the result in units of 1/BLimDen)
NewBLim(sizes, t) ==
    [kind |-> "num", v |-> ((SumSeq(sizes) * t) \div Len(sizes)) - BLimDen]

\* `batch_n_pts > limit` on floats (false when the limit is nan)
OverLimit(n, l) == l.kind = "num" /\ n * BLimDen > l.v

\* the batch of a calibration loop after a region of n points: it is closed and
\* counted when `full`
SimAdd(n, full) ==
    IF full
    THEN [i |-> sim.i + 1, n |-> 0, pts |-> 0,
          sum_n |-> sim.sum_n + sim.n + 1, sum_pts |-> sim.sum_pts + sim.pts + n]
    ELSE [sim EXCEPT !.n = @ + 1, !.pts = @ + n]

InitCalib ==
    /\ PollIdle
    /\ set \in Roles
    /\ data_sampler \in {"regular", "random"}
    /\ in_radius \in {0 - (MaxPts + 1), 1}
    /\ data_sampler = "regular" => in_radius > 0
    /\ b_lim \in (0 - BLimDen)..(BLimDen * MaxBLim)
    /\ num_workers = 1
    /\ reg_sampling_i = 0
    /\ reg_votes = 0
    /\ worker_lock = NoHolder
    /\ \E q \in NewQueues(0) : reg_sample_pts = [p \in Procs |-> q]
    /\ pc = [p \in Procs |-> IF p = Main THEN "calib" ELSE "unborn"]
    /\ center = [p \in Procs |-> NoCenter]
    /\ calib_n = 0
    /\ batch_n_pts = [w \in Workers |-> 0]
    /\ p_list = [w \in Workers |-> << >>]
    /\ in_n = [w \in Workers |-> 0]
    /\ ret = [w \in Workers |-> "none"]
    /\ calls = << >>
    /\ AreaIdle
    /\ MixIdle
    /\ TrainIdle
    /\ DrawIdle
    /\ calib_fn \in {"calib_batch", "calib_neighbors"}
    /\ calib_pc = "start"
    /\ samples \in 1..BLimDen
    /\ b_n \in { BLimDen * t : t \in 1..MaxTarget }
    /\ all_cloud_n = << >>
    /\ new_b_lim = NoLimit
    /\ sim = NoSim

\* what the steps of a calibration routine leave alone
calibFrame == << areaVars, mixVars, trainVars, pollVars, drawVars, set, data_sampler, in_radius,
                 num_workers, sharedVars, calib_n, batchVars, calls, samples >>

\* calib_batch, lines 1028-1034: a positive budget: calib_batch_size; otherwise
\* calib_batch_limit(self.b_n)
CalibBatch ==
    /\ calib_pc = "start"
    /\ calib_fn = "calib_batch"
    /\ calib_fn' = IF b_lim > 0 THEN "calib_batch_size" ELSE "calib_batch_limit"
    /\ calib_pc' = "collect"
    /\ UNCHANGED << calibFrame, pc, center, b_lim, b_n, all_cloud_n, new_b_lim, sim >>

\* calib_neighbors, lines 1055-1082
CalibNeighbors ==
    /\ calib_pc = "start"
    /\ calib_fn = "calib_neighbors"
    /\ calib_pc' = "collect"
    /\ UNCHANGED << calibFrame, pc, center, b_lim, b_n, all_cloud_n, new_b_lim, sim, calib_fn >>

\* sample_input_center has returned to the loop of routine f
Returned(f) ==
    /\ calib_fn = f
    /\ calib_pc = "collect"
    /\ pc[Main] = "calib"
    /\ center[Main] # NoCenter

\* get_input_area(None, None), lines 572-585 and 609: indexing with None
PassEnd(f) ==
    /\ Returned(f)
    /\ center[Main] = END
    /\ pc' = [pc EXCEPT ![Main] = "TypeError"]
    /\ calib_pc' = "raised"
    /\ UNCHANGED << calibFrame, center, b_lim, b_n, all_cloud_n, new_b_lim, sim, calib_fn >>

\* calib_batch_size, lines 874-892: the region of the center, the points kept of it
\* added to the batch, which ends when it exceeds self.b_lim
SizeRegion ==
    /\ Returned("calib_batch_size")
    /\ center[Main] # END
    /\ \E s \in RegionSizes(in_radius) : \E n \in KeptSizes(s) :
          /\ sim' = IF n > 0
                     THEN SimAdd(n, OverLimit(sim.pts + n, [kind |-> "num", v |-> b_lim]))
                     ELSE sim
          /\ calib_pc' = IF sim'.i < samples THEN "collect" ELSE "mean"
    /\ center' = [center EXCEPT ![Main] = NoCenter]
    /\ UNCHANGED << calibFrame, pc, b_lim, b_n, all_cloud_n, new_b_lim, calib_fn >>

\* calib_batch_size, line 916: self.b_n = np.mean(all_batch_n)
SizeReturn ==
    /\ calib_fn = "calib_batch_size"
    /\ calib_pc = "mean"
    /\ b_n' = (BLimDen * sim.sum_n) \div samples
    /\ calib_pc' = "done"
    /\ UNCHANGED << calibFrame, pc, center, b_lim, all_cloud_n, new_b_lim, sim, calib_fn >>

\* calib_batch_limit, lines 946-947: the sampler returned None: leave the loop
LimitBreak ==
    /\ Returned("calib_batch_limit")
    /\ center[Main] = END
    /\ center' = [center EXCEPT ![Main] = NoCenter]
    /\ calib_pc' = "mean"
    /\ UNCHANGED << calibFrame, pc, b_lim, b_n, all_cloud_n, new_b_lim, sim, calib_fn >>

\* calib_batch_limit, lines 948-970 and 944: a non-empty region adds the number of
\* points kept of it to all_cloud_n; the loop ends with `samples` sizes
LimitRegion ==
    /\ Returned("calib_batch_limit")
    /\ center[Main] # END
    /\ \E s \in RegionSizes(in_radius) : \E n \in KeptSizes(s) :
          /\ all_cloud_n' = IF n > 0 THEN Append(all_cloud_n, n) ELSE all_cloud_n
          /\ calib_pc' = IF Len(all_cloud_n') < samples THEN "collect" ELSE "mean"
    /\ center' = [center EXCEPT ![Main] = NoCenter]
    /\ UNCHANGED << calibFrame, pc, b_lim, b_n, new_b_lim, sim, calib_fn >>

\* calib_batch_limit, lines 981-986
LimitMean ==
    /\ calib_fn = "calib_batch_limit"
    /\ calib_pc = "mean"
    /\ new_b_lim' = IF all_cloud_n = << >> THEN NaN ELSE NewBLim(all_cloud_n, b_n)
    /\ sim' = NoSim
    /\ calib_pc' = "verify"
    /\ UNCHANGED << calibFrame, pc, center, b_lim, b_n, all_cloud_n, calib_fn >>

\* np.random.choice(samples): the indices it can draw (0-based)
RandChoices(n) == 0..(n - 1)

\* calib_batch_limit, lines 987-997: one draw of the verification, inside all_cloud_n
VerifyDraw ==
    /\ calib_fn = "calib_batch_limit"
    /\ calib_pc = "verify"
    /\ sim.i < samples
    /\ \E rand_i \in RandChoices(samples) :
          /\ rand_i < Len(all_cloud_n)
          /\ sim' = SimAdd(all_cloud_n[rand_i + 1],
                           OverLimit(sim.pts + all_cloud_n[rand_i + 1], new_b_lim))
    /\ UNCHANGED << calibFrame, pc, center, b_lim, b_n, all_cloud_n, new_b_lim, calib_fn,
                    calib_pc >>

\* calib_batch_limit, lines 991-992: rand_i beyond the sizes collected: IndexError
VerifyIndexError ==
    /\ calib_fn = "calib_batch_limit"
    /\ calib_pc = "verify"
    /\ sim.i < samples
    /\ \E rand_i \in RandChoices(samples) : rand_i >= Len(all_cloud_n)
    /\ pc' = [pc EXCEPT ![Main] = "IndexError"]
    /\ calib_pc' = "raised"
    /\ UNCHANGED << calibFrame, center, b_lim, b_n, all_cloud_n, new_b_lim, sim, calib_fn >>

\* calib_batch_limit line 1020 and calib_batch line 1034:
\* self.b_lim = self.calib_batch_limit(self.b_n)
LimitReturn ==
    /\ calib_fn = "calib_batch_limit"
    /\ calib_pc = "verify"
    /\ sim.i = samples
    /\ b_lim' = new_b_lim.v
    /\ calib_pc' = "done"
    /\ UNCHANGED << calibFrame, pc, center, b_n, all_cloud_n, new_b_lim, sim, calib_fn >>

\* calib_neighbors, lines 1085-1113 and 1083: a non-empty region adds its neighbor
\* counts; the loop ends with `samples` regions
NeighRegion ==
    /\ Returned("calib_neighbors")
    /\ center[Main] # END
    /\ \E s \in RegionSizes(in_radius) : \E n \in KeptSizes(s) :
          /\ all_cloud_n' = IF n > 0 THEN Append(all_cloud_n, n) ELSE all_cloud_n
          /\ calib_pc' = IF Len(all_cloud_n') < samples THEN "collect" ELSE "done"
    /\ center' = [center EXCEPT ![Main] = NoCenter]
    /\ UNCHANGED << calibFrame, pc, b_lim, b_n, new_b_lim, sim, calib_fn >>

NextCalib ==
    \/ CalibBatch
    \/ CalibNeighbors
    \/ \E p \in Procs : Acquire(p)
    \/ \E p \in Procs : ReadNext(p)
    \/ \E p \in Procs : ReadRegen(p)
    \/ \E p \in Procs : ReturnEnd(p)
    \/ \E p \in Procs : Inc(p)
    \/ \E p \in Procs : SampleRandom(p)
    \/ PassEnd("calib_batch_size")
    \/ SizeRegion
    \/ SizeReturn
    \/ LimitBreak
    \/ LimitRegion
    \/ LimitMean
    \/ VerifyDraw
    \/ VerifyIndexError
    \/ LimitReturn
    \/ PassEnd("calib_neighbors")
    \/ NeighRegion
    \/ CalibReset

SpecCalib == InitCalib /\ [][NextCalib]_vars

\* =================================================================== claims

\* the processes that can call sample_input_center in this state
Readers == IF pc[Main] = "calib" THEN {Main} ELSE 1..num_workers

\* every reader references the same queue
OneQueue == \A p, r \in Readers : reg_sample_pts[p] = reg_sample_pts[r]

\* the queue of the readers, when they reference the same one
TheQueue == reg_sample_pts[CHOOSE p \in Readers : TRUE]

\* the slots of a queue, as the history records them
Slots(q) == { [QueueAt(q, i) EXCEPT !.gen = 0] : i \in 0..(q.N - 1) }

\* the non-END results of the history
NonEnd == SelectSeq(calls, LAMBDA c : c # END)

SinglePass == data_sampler = "regular" /\ set # "validation"
Revisited == data_sampler = "regular" /\ set = "validation"

\* C1: under the regular policy, while every reader works on the same queue, the
\* non-END results returned since the cursor was 0 are pairwise different elements
\* of that queue, as many as the cursor has advanced, no two processes hold the
\* same element, and once the cursor has reached the length of the queue every
\* element has been returned (exactly once each).
C1_SweepCoverage ==
    (data_sampler = "regular" /\ OneQueue) =>
        /\ Len(NonEnd) = reg_sampling_i
        /\ \A i \in 1..Len(NonEnd) : NonEnd[i] \in Slots(TheQueue)
        /\ \A i, j \in 1..Len(NonEnd) : i # j => NonEnd[i] # NonEnd[j]
        /\ reg_sampling_i = TheQueue.N =>
              { NonEnd[i] : i \in 1..Len(NonEnd) } = Slots(TheQueue)
        /\ \A p, r \in Readers :
              (p # r /\ center[p].kind = "center" /\ center[r].kind = "center")
                  => center[p] # center[r]

\* C1 witness: two workers have swept the whole queue between them and each holds
\* one of its elements.
C1_Witness ==
    /\ data_sampler = "regular"
    /\ num_workers = 2
    /\ OneQueue
    /\ reg_sampling_i = TheQueue.N
    /\ Len(NonEnd) = TheQueue.N
    /\ pc[1] = "got" /\ center[1].kind = "center"
    /\ pc[2] = "got" /\ center[2].kind = "center"

\* C2: in the validation role with several workers, a worker that has read a center
\* under the lock has read it from the current queue, the one made by the latest
\* regeneration (whose name is the value of the vote counter).
C2_ReadsCurrentQueue ==
    Revisited => \A w \in Workers : pc[w] = "inc" => center[w].gen = reg_votes

\* C3: in a single-pass role under the regular policy, counting the calls since the
\* cursor was 0 on a queue of length Q: call i returns END exactly when i > Q; once
\* END has been returned the cursor still equals Q, no vote has been counted and
\* every process still references the initial queue.
C3_SinglePassExhaustion ==
    SinglePass =>
        /\ OneQueue
        /\ \A i \in 1..Len(calls) :
              /\ (calls[i] = END) <=> (i > TheQueue.N)
              /\ calls[i] # END => calls[i].kind = "center"
        /\ Len(calls) > TheQueue.N => reg_sampling_i = TheQueue.N
        /\ reg_votes = 0
        /\ \A p \in Procs : reg_sample_pts[p].gen = 0

\* C3 witness: a worker has made call Q+1 and holds END.
C3_Witness ==
    /\ SinglePass
    /\ Len(calls) = TheQueue.N + 1
    /\ calls[Len(calls)] = END
    /\ \E w \in Workers : pc[w] = "got" /\ center[w] = END

\* C4: in the validation role under the regular policy, a step changes the vote
\* counter only when a process holding the lock finds the cursor at or past the end
\* of its queue; that step adds exactly 1 to the counter, makes a new queue for the
\* process, sets the cursor to 0 and reads element 0 of the new queue; the call
\* then returns that element leaving the cursor at 1.
C4_Regeneration ==
    [][ /\ reg_votes' # reg_votes =>
              \E p \in Procs :
                  /\ Revisited
                  /\ worker_lock = p /\ pc[p] = "locked"
                  /\ reg_sampling_i >= reg_sample_pts[p].N
                  /\ reg_votes' = reg_votes + 1
                  /\ reg_sample_pts'[p].gen = reg_votes'
                  /\ reg_sampling_i' = 0
                  /\ center'[p] = QueueAt(reg_sample_pts'[p], 0)
                  /\ center'[p].kind = "center"
        /\ \A p \in Procs :
              (/\ Revisited
               /\ pc[p] = "locked" /\ pc'[p] # "locked"
               /\ reg_sampling_i >= reg_sample_pts[p].N)
                  => (reg_votes' = reg_votes + 1 /\ reg_sample_pts'[p] # reg_sample_pts[p])
        /\ \A p \in Procs :
              (/\ Revisited
               /\ pc[p] = "inc" /\ pc'[p] # "inc"
               /\ center[p] = QueueAt(reg_sample_pts[p], 0))
                  => (reg_sampling_i' = 1 /\ reg_votes' = reg_votes)
      ]_vars

\* C4 witness: a worker's call has regenerated the queue and returned its first
\* element; one vote is counted and the cursor is 1.
C4_Witness ==
    /\ Revisited
    /\ reg_votes = 1
    /\ reg_sampling_i = 1
    /\ \E w \in Workers :
          /\ pc[w] = "got"
          /\ reg_sample_pts[w].gen = 1
          /\ reg_sample_pts[Main].gen = 0
          /\ center[w] = QueueAt(reg_sample_pts[w], 0)

\* the processes inside the locked section of sample_input_center
InSection == { p \in Procs : pc[p] \in {"locked", "inc"} }

\* C5 as stated: every step that changes the cursor or the vote counter, the
\* calibration procedures' included, is taken while the lock is held.
C5_EveryWriteLocked ==
    [][ (reg_sampling_i' # reg_sampling_i \/ reg_votes' # reg_votes)
            => worker_lock # NoHolder ]_vars

\* C5 amended: a step that changes the cursor or the vote counter is either taken by
\* the one process inside the locked section of sample_input_center, which holds the
\* lock, or is the reset to 0 that ends calibration, taken by the main process
\* without the lock; at most one process is inside the locked section.
C5_SamplerWritesLocked ==
    [][ /\ (reg_sampling_i' # reg_sampling_i \/ reg_votes' # reg_votes) =>
              \/ /\ worker_lock # NoHolder
                 /\ InSection = {worker_lock}
                 /\ pc'[worker_lock] # pc[worker_lock]
              \/ /\ worker_lock = NoHolder
                 /\ pc[Main] = "calib" /\ pc'[Main] = "calibrated"
                 /\ reg_sampling_i' = 0
                 /\ reg_votes' = reg_votes
        /\ Cardinality(InSection) <= 1
        /\ \A p \in InSection : worker_lock = p
      ]_vars

\* C5 witness: one worker is between its read and its increment, holding the lock,
\* while the other worker waits to draw, after calibration moved and reset the cursor.
C5_Witness ==
    /\ num_workers = 2
    /\ \E p, r \in Workers :
          /\ p # r
          /\ pc[p] = "inc" /\ worker_lock = p
          /\ pc[r] = "draw"
    /\ reg_sampling_i > 0

\* C6: under the regular policy the cursor is never negative; a process that has
\* indexed its queue with the cursor did so at an index below the length of that
\* queue and got one of its elements (no call ever reads at or past the end, a
\* regenerated queue of another length included); while every reader works on the
\* same queue the cursor does not exceed its length.
C6_CursorInRange ==
    data_sampler = "regular" =>
        /\ reg_sampling_i >= 0
        /\ \A p \in Procs :
              pc[p] = "inc" =>
                  /\ reg_sampling_i < reg_sample_pts[p].N
                  /\ center[p] = QueueAt(reg_sample_pts[p], reg_sampling_i)
                  /\ center[p].kind = "center"
        /\ \A p \in Procs : center[p] # IndexError
        /\ \A i \in 1..Len(calls) : calls[i] # IndexError
        /\ OneQueue => reg_sampling_i <= TheQueue.N

\* C6 witness: a process has regenerated a queue shorter than the one it replaces
\* and has read the new queue at the reset cursor.
C6_Witness ==
    /\ Revisited
    /\ \E p, r \in Procs :
          /\ pc[p] = "inc"
          /\ reg_sample_pts[p].gen = reg_votes
          /\ reg_sample_pts[r].gen < reg_votes
          /\ reg_sample_pts[p].N < reg_sample_pts[r].N
          /\ reg_sampling_i = 0
          /\ center[p] = QueueAt(reg_sample_pts[p], 0)

\* C7 as stated: when __getitem__ is about to return, its running total exceeds
\* the batch limit or it has collected no region.
C7_OverBudgetOrEmpty ==
    \A w \in Workers :
        pc[w] = "exit" =>
            (batch_n_pts[w] * BLimDen > b_lim \/ Len(p_list[w]) = 0)

\* C7 amended: when __getitem__ is about to return, its running total exceeds the
\* batch limit or the sampler returned END (with or without regions collected
\* before it).
C7_OverBudgetOrEnd ==
    \A w \in Workers :
        pc[w] = "exit" =>
            (batch_n_pts[w] * BLimDen > b_lim \/ center[w] = END)

\* C7 witness: the sampler returned END while the batch held a region and was
\* still within the limit.
C7_Witness ==
    \E w \in Workers :
        /\ pc[w] = "exit"
        /\ center[w] = END
        /\ Len(p_list[w]) > 0
        /\ batch_n_pts[w] * BLimDen <= b_lim

\* C8: __getitem__ leaves its accumulation loop with a running total within the
\* batch limit only on END, and goes on drawing after a region only while the
\* total is within the limit.
C8_NoEarlyStop ==
    [][ \A w \in Workers :
          /\ (/\ pc[w] \in {"got", "area"} /\ pc'[w] = "exit"
              /\ batch_n_pts'[w] * BLimDen <= b_lim)
                 => (pc[w] = "got" /\ center[w] = END)
          /\ (/\ pc[w] = "area" /\ pc'[w] = "draw"
              /\ Len(p_list'[w]) > Len(p_list[w]))
                 => batch_n_pts'[w] * BLimDen <= b_lim
      ]_vars

\* C8 witness: the loop went on after a first region within the limit and stopped,
\* on a center that is not END, when the second region took the total over it.
C8_Witness ==
    \E w \in Workers :
        /\ pc[w] = "exit"
        /\ center[w] # END
        /\ Len(p_list[w]) >= 2
        /\ b_lim >= 0
        /\ batch_n_pts[w] * BLimDen > b_lim

\* C9: __getitem__ returns the empty batch exactly when it collected no region, and
\* then the policy is regular, the role is not validation and the sampler returned
\* END; no empty batch is ever returned under a random policy or in validation.
C9_EmptyBatch ==
    [][ \A w \in Workers :
          (pc[w] = "exit" /\ pc'[w] = "idle") =>
              /\ (ret'[w] = "empty") <=> (Len(p_list[w]) = 0)
              /\ ret'[w] \in {"empty", "batch"}
              /\ ret'[w] = "empty" => (SinglePass /\ center[w] = END)
      ]_vars

\* C9 witness: a call has returned the empty batch.
C9_Witness ==
    \E w \in Workers : pc[w] = "idle" /\ ret[w] = "empty" /\ SinglePass

\* C10: when the region extracted by __getitem__ holds no point, the next step of
\* the call appends nothing to its lists, leaves the running total and the cursor
\* unchanged, and goes back to drawing a center.
C10_SkipEmptyRegion ==
    [][ \A w \in Workers :
          (pc[w] = "area" /\ in_n[w] = 0 /\ pc'[w] # "area") =>
              /\ pc'[w] = "draw"
              /\ p_list'[w] = p_list[w]
              /\ batch_n_pts'[w] = batch_n_pts[w]
              /\ reg_sampling_i' = reg_sampling_i
      ]_vars

\* C10 witness: the only worker is back at drawing with two centers consumed from
\* the queue and a single region in its list, under a limit that no single region
\* exceeds: the other center's region was empty and skipped.
C10_Witness ==
    /\ data_sampler = "regular"
    /\ num_workers = 1
    /\ b_lim = BLimDen * MaxBLim
    /\ pc[1] = "draw"
    /\ reg_sampling_i = 2
    /\ Len(calls) = 2
    /\ Len(p_list[1]) = 1
    /\ batch_n_pts[1] = 1

\* ------------------------------------------------- claims on get_input_area

AreaAxes == QueryAxes(cylindric_input)
EuclToCenter == [i \in 1..tree_n |-> SqDist(ScenePoint(i), q_center, AreaAxes)]
ChebToCenter == [i \in 1..tree_n |-> ChebDist(ScenePoint(i), q_center, AreaAxes)]
Smaller(a, b) == IF a < b THEN a ELSE b

\* C11: in fixed-count mode, for every shape, a scene of N <= k points (k =
\* -in_radius) is returned whole: every call returns the indices of all N points
\* and raises no error.
C11_SmallSceneWhole ==
    (in_radius < 0 /\ tree_n <= 0 - in_radius) =>
        \A j \in 1..Len(areas) :
            areas[j].kind = "inds" /\ areas[j].inds = 1..tree_n

\* C12: in fixed-count mode every call returns exactly min(k, N) points; with cubes
\* these are the points of smallest Chebyshev distance among the 2k Euclidean-nearest
\* points (all N when N <= 2k), with spheres the min(k, N) Euclidean-nearest points.
C12_FixedCountSelection ==
    in_radius < 0 =>
        \A j \in 1..Len(areas) :
            LET K == 0 - in_radius
                m == Smaller(K, tree_n)
            IN  /\ areas[j].kind = "inds"
                /\ Cardinality(areas[j].inds) = m
                /\ IF use_cubes
                   THEN /\ areas[j].cand \in
                              KSmallest(1..tree_n, Smaller(2 * K, tree_n), EuclToCenter)
                        /\ areas[j].inds \in KSmallest(areas[j].cand, m, ChebToCenter)
                   ELSE areas[j].inds \in KSmallest(1..tree_n, m, EuclToCenter)

\* C13: in fixed-radius mode two calls on the same scene, center and radius return
\* the same index set, and every returned point satisfies the predicate of the
\* shape on the indexed axes: squared distance to the center <= r^2 for spheres,
\* absolute offset < r on every axis for cubes.
C13_RadiusSound ==
    in_radius > 0 =>
        /\ \A j \in 1..Len(areas) :
              /\ areas[j].kind = "inds"
              /\ \A i \in areas[j].inds :
                    IF use_cubes
                    THEN \A ax \in AreaAxes :
                            Abs(ScenePoint(i)[ax] - q_center[ax]) < in_radius
                    ELSE EuclToCenter[i] <= in_radius * in_radius
        /\ Len(areas) = 2 => areas[1].inds = areas[2].inds

\* C13 witness: two calls on a cube returned the same non-empty set, and the box
\* mask has removed a point the ball query had found.
C13_Witness ==
    /\ in_radius > 0
    /\ use_cubes
    /\ Len(areas) = 2
    /\ areas[1].inds # {}
    /\ areas[1].cand \ areas[1].inds # {}

\* C14: in fixed-radius mode with cubes the returned set is exactly the set of scene
\* points whose offset from the center is, on every indexed axis, strictly inside
\* the half-width r: the ball query loses no point of the open cube.
C14_CubeComplete ==
    (in_radius > 0 /\ use_cubes) =>
        \A j \in 1..Len(areas) :
            areas[j].inds =
                { i \in 1..tree_n :
                    \A ax \in AreaAxes :
                        Abs(ScenePoint(i)[ax] - q_center[ax]) < in_radius }

\* C14 witness: a returned point of the cube lies farther from the center than r,
\* inside the enlarged ball only.
C14_Witness ==
    /\ in_radius > 0
    /\ use_cubes
    /\ \E j \in 1..Len(areas) :
          \E i \in areas[j].inds : EuclToCenter[i] > in_radius * in_radius

\* ------------------------------------------------ claims on the random policies

\* the label of the point a center was drawn at
CenterLabel(c) == input_labels[c.cloud][c.pt]

C16_RandomFrame ==
    [][ (data_sampler \in RandomSamplers) =>
          /\ reg_sampling_i' = reg_sampling_i
          /\ reg_votes' = reg_votes
          /\ reg_sample_pts' = reg_sample_pts
          /\ worker_lock = NoHolder /\ worker_lock' = NoHolder
          /\ \A p \in Procs :
                LET c == center'[p]
                IN  /\ pc'[p] \notin {"locked", "inc"}
                    /\ c # END
                    /\ c # NoCenter =>
                          (/\ c.kind = "center"
                           /\ c.cloud \in Clouds
                           /\ c.pt \in 1..Len(input_labels[c.cloud]))
      ]_vars

\* C16 witness: two workers hold centers drawn at random; cursor, votes and lock are
\* as calibration left them.
C16_Witness ==
    /\ data_sampler \in RandomSamplers
    /\ num_workers = 2
    /\ pc[1] = "got" /\ center[1].kind = "center"
    /\ pc[2] = "got" /\ center[2].kind = "center"
    /\ reg_sampling_i = 0 /\ reg_votes = 0 /\ worker_lock = NoHolder

\* C17: with a policy name that is none of the defined policies no call of
\* sample_input_center returns a center.
C17_UnknownRejected ==
    data_sampler \in UnknownSamplers =>
        \A p \in Procs : center[p].kind # "center"

\* ------------------------------------------------------- claims on scene mixing

\* the region lengths as collected, before any merge
CollectedLengths == [i \in 1..Len(lengths_in) |-> lengths_in[i][1]]

\* C18: after the Mix3D step on B regions with untouched count U: 0 <= U <= B, B - U
\* is even, the merged vector has (B-U)/2 + U entries, the first (B-U)/2 are the sums
\* of the adjacent pairs of the leading B-U lengths, the last U are the trailing
\* lengths unchanged, and with B - U >= 2 (U = 0 included) the vector is shorter
\* than B.
C18_MixMerge ==
    mix_pc = "mixed" =>
        LET B == Len(lengths_in)
            U == Untouched(B, mix3D)
            H == (B - U) \div 2
        IN  /\ 0 <= U /\ U <= B
            /\ (B - U) % 2 = 0
            /\ Len(stack_lengths) = H + U
            /\ \A i \in 1..H :
                  i <= Len(stack_lengths) =>
                      stack_lengths[i] = CollectedLengths[2 * i - 1] + CollectedLengths[2 * i]
            /\ \A j \in 1..U :
                  H + j <= Len(stack_lengths) =>
                      stack_lengths[H + j] = CollectedLengths[B - U + j]
            /\ B - U >= 2 => Len(stack_lengths) < B

\* C19: the step that ends the concatenation, with or without Mix3D, leaves the
\* concatenated arrays as they are and keeps the sum of each length vector:
\* stack_lengths sums to the number of concatenated points, stack_lengths0 to the
\* number of concatenated region indices; outside training the vectors themselves
\* are unchanged.
C19_MixFrame ==
    [][ (mix_pc = "stacked" /\ mix_pc' # "stacked") =>
          /\ stacked' = stacked
          /\ SumSeq(stack_lengths') = SumSeq(stack_lengths)
          /\ SumSeq(stack_lengths0') = SumSeq(stack_lengths0)
          /\ SumSeq(stack_lengths') = stacked'.points
          /\ SumSeq(stack_lengths0') = stacked'.inds
          /\ stacked'.centers = Len(lengths_in)
          /\ set # "training" =>
                (stack_lengths' = stack_lengths /\ stack_lengths0' = stack_lengths0)
      ]_vars

\* C19 witness: Mix3D has merged pairs of a batch of at least three regions.
C19_Witness ==
    /\ mix_pc = "mixed"
    /\ Len(lengths_in) >= 3
    /\ Len(stack_lengths) < Len(lengths_in)
    /\ SumSeq(stack_lengths) = stacked.points

\* ------------------------------------------------- claims on the training loop

\* C20: on a CUDA out-of-memory error training_epoch replaces the budget b by
\* b - floor(0.1 b), reports the epoch as not finished and drops at most
\* floor(1.1 num_workers) + 1 further batches before returning, without processing
\* any; the budget never increases and never becomes negative; any other
\* RuntimeError is raised again, with the budget untouched.
C20_OOMRecovery ==
    [][ /\ (train_pc = "except" /\ err = "CUDA out of memory" /\ train_pc' # "except") =>
              /\ b_lim' = b_lim - BLimDen * (b_lim \div (10 * BLimDen))
              /\ finished' = FALSE
              /\ train_pc' = "skipping"
        /\ b_lim' <= b_lim
        /\ b_lim' >= 0
        /\ skipped_i' <= ((11 * num_workers) \div 10) + 1
        /\ train_pc = "skipping" =>
              (train_pc' \in {"skipping", "returned"} /\ finished' = FALSE)
        /\ (train_pc = "except" /\ err # "CUDA out of memory" /\ train_pc' # "except") =>
              (train_pc' = "raised" /\ b_lim' = b_lim)
        /\ train_pc = "raised" => train_pc' = "raised"
      ]_vars

\* C20 witness: a second recovery has returned, not finished, after dropping as many
\* batches as the limit allows, with a budget it has reduced.
C20_Witness ==
    /\ train_pc = "returned"
    /\ epoch >= 2
    /\ finished = FALSE
    /\ num_workers = 2
    /\ skipped_i = ((11 * num_workers) \div 10) + 1
    /\ b_lim = BLimDen * MaxTrainB - 2 * BLimDen

\* ------------------------------------------- claims on get_votes and the queue

\* C21: a get_votes() call under the regular policy holds the lock while it reads and
\* returns vote_counter + cursor / queue_length, a value between vote_counter and
\* vote_counter + 1; under any other policy it returns 0 and leaves the lock and the
\* shared state alone.
C21_VotesInUnit ==
    [][ /\ (pc[Main] = "votes" /\ pc'[Main] # "votes") =>
              /\ worker_lock = Main
              /\ v_ret'.kind = "value"
              /\ v_ret'.v = reg_votes
              /\ v_ret'.i = reg_sampling_i
              /\ v_ret'.N = reg_sample_pts[Main].N
              /\ 0 <= v_ret'.i /\ v_ret'.i <= v_ret'.N
        /\ (data_sampler # "regular" /\ v_ret' # v_ret) =>
              /\ v_ret'.kind = "value" /\ v_ret'.v = 0 /\ v_ret'.i = 0
              /\ UNCHANGED sharedVars
      ]_vars

\* C23: with the regular policy and a negative (fixed-count) radius, the making of
\* the queue ends in ValueError and no process ever references a queue.
C23_NegativeRadiusRejected ==
    [][ (data_sampler = "regular" /\ in_radius < 0) =>
            /\ (pc[Main] = "init" /\ pc'[Main] # "init") => pc'[Main] = "ValueError"
            /\ \A p \in Procs : reg_sample_pts'[p] = NoQueue
            /\ pc'[Main] \in {"init", "ValueError"}
      ]_vars

\* C23 witness: the construction has failed and there is no queue.
C23_Witness ==
    /\ data_sampler = "regular"
    /\ in_radius < 0
    /\ pc[Main] = "ValueError"
    /\ reg_sample_pts[Main] = NoQueue

\* C26: when a calibration returns, the cursor and the vote counter are both 0, and
\* a get_votes() made before any worker has drawn returns 0.
C26_CalibrationResets ==
    [][ /\ (pc[Main] = "calib" /\ pc'[Main] = "calibrated") =>
              (reg_sampling_i' = 0 /\ reg_votes' = 0)
        /\ (pc[Main] = "votes" /\ pc'[Main] = "calibrated" /\ reg_sampling_i = 0) =>
              (v_ret'.v = 0 /\ v_ret'.i = 0)
      ]_vars

\* C28: the value a get_votes() returns is never below the value the previous one
\* returned (v + i/N compared as fractions).
C28_VotesMonotone ==
    [][ (v_ret'.v * v_ret'.N + v_ret'.i) * v_ret.N
            >= (v_ret.v * v_ret.N + v_ret.i) * v_ret'.N ]_vars

\* ------------------------------------------------ claims on the fixed-count mode

\* C24 as stated: in fixed-count mode (k = -in_radius) a call leaves its loop with a
\* running total of k per collected region and with exactly floor(budget / k) + 1
\* regions.
C24_FixedCountRegions ==
    \A w \in Workers :
        (pc[w] = "exit" /\ in_radius < 0) =>
            /\ batch_n_pts[w] = (0 - in_radius) * Len(p_list[w])
            /\ Len(p_list[w]) = (b_lim \div (BLimDen * (0 - in_radius))) + 1

\* C24 amended: the running total is k per collected region, and the call leaves its
\* loop with floor(budget / k) + 1 regions when the budget is not negative, with one
\* region when it is.
C24_FixedCountRegionsFromZero ==
    \A w \in Workers :
        (pc[w] = "exit" /\ in_radius < 0) =>
            /\ batch_n_pts[w] = (0 - in_radius) * Len(p_list[w])
            /\ b_lim >= 0 =>
                  Len(p_list[w]) = (b_lim \div (BLimDen * (0 - in_radius))) + 1
            /\ b_lim < 0 => Len(p_list[w]) = 1

\* C24 witness: a call leaves its loop with two regions, under a budget of k points.
C24_Witness ==
    \E w \in Workers :
        /\ pc[w] = "exit"
        /\ in_radius < 0
        /\ b_lim >= BLimDen * (0 - in_radius)
        /\ Len(p_list[w]) = 2

\* ------------------------------------------------- claims on the end of a sweep

\* a worker's sample_input_center has returned END since calibration ended
EndSeen == pc[Main] = "calibrated" /\ \E i \in 1..Len(calls) : calls[i] = END

\* the worker holds no region and no center: it is between calls, or in a call that
\* has collected nothing
Clean(w) == p_list[w] = << >> /\ center[w].kind # "center" /\ pc[w] # "area"

\* C27: in a single-pass role, once a worker's sample_input_center has returned END,
\* the cursor stays at the length of the queue, every call of sample_input_center
\* that returns returns END, a call of __getitem__ that begins holds nothing, a call
\* that holds nothing never comes to hold anything, and what it returns is the empty
\* batch.
C27_EndAbsorbing ==
    [][ (SinglePass /\ EndSeen) =>
            /\ reg_sampling_i = TheQueue.N
            /\ reg_sampling_i' = reg_sampling_i
            /\ \A w \in Workers :
                  /\ (pc[w] = "locked" /\ pc'[w] # "locked") =>
                        (pc'[w] = "got" /\ center'[w] = END)
                  /\ (pc[w] = "idle" /\ pc'[w] # "idle") => Clean(w)'
                  /\ Clean(w) => Clean(w)'
                  /\ (Clean(w) /\ ret'[w] # ret[w]) => ret'[w] \in {"none", "empty"}
                  /\ (Clean(w) /\ pc[w] = "exit" /\ pc'[w] # "exit") => ret'[w] = "empty"
      ]_vars

\* C27 witness: two calls of sample_input_center have returned END and a worker has
\* returned the empty batch, with two workers running.
C27_Witness ==
    /\ SinglePass
    /\ num_workers = 2
    /\ \E i, j \in 1..Len(calls) : i < j /\ calls[i] = END /\ calls[j] = END
    /\ \E w \in Workers : pc[w] = "idle" /\ ret[w] = "empty"

\* ------------------------------------------------ claims on the end of a call

\* C29: under the regular policy in a single-pass role a call of __getitem__ draws at
\* most (queue length - cursor at its start) + 1 centers, and an empty region makes
\* it draw again with a cursor that has advanced; under a random policy or in the
\* validation role no draw returns END, an empty region makes the call draw again,
\* and the call leaves its loop only by the step that appends a non-empty region.
C29_CallTermination ==
    [][ \A w \in Workers :
          /\ SinglePass =>
                /\ draw_n'[w] <= (reg_sample_pts'[w].N - draw_i0'[w]) + 1
                /\ (pc[w] = "inc" /\ pc'[w] # "inc") => reg_sampling_i' > reg_sampling_i
                /\ (pc[w] = "got" /\ pc'[w] = "exit") => center[w] = END
          /\ ~SinglePass =>
                /\ center'[w] # END
                /\ (pc[w] # "exit" /\ pc'[w] = "exit") =>
                      (/\ pc[w] = "area"
                       /\ in_n[w] >= 1
                       /\ Len(p_list'[w]) = Len(p_list[w]) + 1)
          /\ (pc[w] = "area" /\ in_n[w] < 1 /\ pc'[w] # "area") =>
                (pc'[w] = "draw" /\ p_list'[w] = p_list[w])
      ]_vars

\* C29 witness: a single-pass call that began with the cursor at 0 has drawn every
\* center of the queue, found every region empty, drawn END and left its loop with
\* nothing collected.
C29_Witness ==
    \E w \in Workers :
        /\ SinglePass
        /\ pc[w] = "exit"
        /\ p_list[w] = << >>
        /\ draw_i0[w] = 0
        /\ reg_sample_pts[w].N = QueueCap
        /\ draw_n[w] = reg_sample_pts[w].N + 1

\* --------------------------------------------------------- claims on the lock

\* the lines a process executes inside `with self.worker_lock`
InLock(p) == pc[p] \in {"locked", "inc", "votes"}

\* the run has reached the number of sweeps the model follows
SweepsDone == RegenRole(set) /\ reg_votes = VoteCap

SimAdded == (sim'.pts + sim'.sum_pts) - (sim.pts + sim.sum_pts)

\* C22: calib_batch_limit collects sizes >= 1 only and sets, from M >= 1 collected
\* sizes and the target T, the budget mean(s) * T - 1, which T regions of the mean
\* size exceed; every draw of the verification adds one of the collected sizes and
\* closes the simulated batch exactly when its total exceeds the new budget; what
\* the routine returns becomes the budget, the target unchanged. calib_batch runs it
\* exactly when the configured budget is <= 0; with a budget > 0 it runs
\* calib_batch_size, which leaves the budget unchanged and sets the batch size to
\* the mean number of regions of the batches it built.
C22_BatchLimitCalibration ==
    [][ LET M == Len(all_cloud_n)
        IN  /\ \A j \in 1..Len(all_cloud_n') : all_cloud_n'[j] >= 1
            /\ (calib_pc = "mean" /\ calib_pc' = "verify" /\ M >= 1) =>
                  /\ new_b_lim'.kind = "num"
                  /\ new_b_lim'.v * M = SumSeq(all_cloud_n) * b_n - BLimDen * M
                  /\ SumSeq(all_cloud_n) * b_n > new_b_lim'.v * M
            /\ (calib_pc = "verify" /\ sim' # sim) =>
                  /\ \E j \in 1..M : SimAdded = all_cloud_n[j]
                  /\ sim'.i = sim.i + 1 <=> (sim.pts + SimAdded) * BLimDen > new_b_lim.v
                  /\ sim'.i = sim.i <=> sim'.n = sim.n + 1
            /\ (calib_pc = "verify" /\ calib_pc' = "done") =>
                  (b_lim' = new_b_lim.v /\ b_n' = b_n /\ sim.i = samples)
            /\ (calib_fn = "calib_batch" /\ calib_fn' # calib_fn) =>
                  calib_fn' = IF b_lim <= 0 THEN "calib_batch_limit" ELSE "calib_batch_size"
            /\ calib_fn = "calib_batch_size" =>
                  /\ b_lim' = b_lim
                  /\ b_n' # b_n => b_n' * samples = BLimDen * sim.sum_n
            /\ calib_fn = "calib_batch_limit" => b_n' = b_n
      ]_vars

\* C22 witness: calib_batch_limit has returned a budget computed from two sizes,
\* after a simulated batch of more than one region.
C22_Witness ==
    /\ calib_fn = "calib_batch_limit"
    /\ calib_pc = "done"
    /\ Len(all_cloud_n) = 2
    /\ b_lim = new_b_lim.v
    /\ b_lim > 0
    /\ sim.sum_n > samples

\* C30: no calibration routine ends in an error: the END sentinel is never passed to
\* get_input_area (TypeError), no size is read outside the sizes collected
\* (IndexError), and no budget is computed from zero sizes.
C30_CalibrationSurvivesEnd ==
    /\ pc[Main] \notin {"TypeError", "IndexError"}
    /\ new_b_lim.kind # "nan"

====
